---- MODULE Spec2Model ----
(***************************************************************************)
(* Model of the log-parsing and analysis engine of log_analyzer.py:        *)
(* LogAnalyzer.parse_log_file / parse_log_line / extract_fields /          *)
(* parse_timestamp / analyze_entries / detect_anomalies.                   *)
(*                                                                         *)
(* A line is a sequence of one-character strings.  The regular expressions *)
(* of the registry are sequences of quantified single-character atoms and  *)
(* are matched by a backtracking matcher with the priority order of        *)
(* Python's re module (greedy: longest first, lazy: shortest first).       *)
(***************************************************************************)
EXTENDS Integers, Sequences, FiniteSets, TLC

(***************************************************************************)
(* Characters and character classes                                        *)
(***************************************************************************)
Digits == {"0", "1", "2", "3", "4", "5", "6", "7", "8", "9"}

LowerCase == {"a", "b", "c", "d", "e", "f", "g", "h", "i", "j", "k", "l", "m",
              "n", "o", "p", "q", "r", "s", "t", "u", "v", "w", "x", "y", "z"}

UpperCase == {"A", "B", "C", "D", "E", "F", "G", "H", "I", "J", "K", "L", "M",
              "N", "O", "P", "Q", "R", "S", "T", "U", "V", "W", "X", "Y", "Z"}

Whitespace == {" "}

\* str.lower() / re.IGNORECASE folding of one character
ToLower(c) ==
  CASE c = "A" -> "a" [] c = "B" -> "b" [] c = "C" -> "c" [] c = "D" -> "d"
    [] c = "E" -> "e" [] c = "F" -> "f" [] c = "G" -> "g" [] c = "H" -> "h"
    [] c = "I" -> "i" [] c = "J" -> "j" [] c = "K" -> "k" [] c = "L" -> "l"
    [] c = "M" -> "m" [] c = "N" -> "n" [] c = "O" -> "o" [] c = "P" -> "p"
    [] c = "Q" -> "q" [] c = "R" -> "r" [] c = "S" -> "s" [] c = "T" -> "t"
    [] c = "U" -> "u" [] c = "V" -> "v" [] c = "W" -> "w" [] c = "X" -> "x"
    [] c = "Y" -> "y" [] c = "Z" -> "z" [] OTHER -> c

DigitVal(c) ==
  CASE c = "0" -> 0 [] c = "1" -> 1 [] c = "2" -> 2 [] c = "3" -> 3
    [] c = "4" -> 4 [] c = "5" -> 5 [] c = "6" -> 6 [] c = "7" -> 7
    [] c = "8" -> 8 [] c = "9" -> 9

\* does character c belong to the class of atom a
\*   "S" = \S   "d" = \d   "w" = \w   "s" = \s   "any" = .   "alpha" = [A-Za-z]
\*   "sign" = [+-]   "lit" = the literal character a.ch
InClass(a, c) ==
  CASE a.cls = "lit"   -> c = a.ch
    [] a.cls = "S"     -> c \notin Whitespace
    [] a.cls = "s"     -> c \in Whitespace
    [] a.cls = "d"     -> c \in Digits
    [] a.cls = "w"     -> c \in Digits \cup LowerCase \cup UpperCase \cup {"_"}
    [] a.cls = "alpha" -> c \in LowerCase \cup UpperCase
    [] a.cls = "sign"  -> c \in {"+", "-"}
    [] a.cls = "any"   -> TRUE

(***************************************************************************)
(* Regular-expression atoms.  max = -1 stands for "unbounded".             *)
(***************************************************************************)
Lit(c)        == [cls |-> "lit", ch |-> c, min |-> 1, max |-> 1, greedy |-> TRUE]
OptLit(c)     == [cls |-> "lit", ch |-> c, min |-> 0, max |-> 1, greedy |-> TRUE]
Plus(cls)     == [cls |-> cls, ch |-> "", min |-> 1, max |-> -1, greedy |-> TRUE]
LazyStar(cls) == [cls |-> cls, ch |-> "", min |-> 0, max |-> -1, greedy |-> FALSE]
Rep(cls, n)   == [cls |-> cls, ch |-> "", min |-> n, max |-> n, greedy |-> TRUE]
Between(cls, lo, hi) == [cls |-> cls, ch |-> "", min |-> lo, max |-> hi, greedy |-> TRUE]

\* number of consecutive characters after offset pos that atom a accepts,
\* at most cap of them
RECURSIVE RunLen(_, _, _, _)
RunLen(a, line, pos, cap) ==
  IF a.cls = "any" THEN (IF pos + cap > Len(line) THEN Len(line) - pos ELSE cap)
  ELSE IF cap = 0 \/ pos >= Len(line) THEN 0
  ELSE IF ~InClass(a, line[pos + 1]) THEN 0
  ELSE 1 + RunLen(a, line, pos + 1, cap - 1)

NoMatch == [ok |-> FALSE, ends |-> <<>>]

\* can the atoms from k on start at offset pos: a one-character lookahead
\* that discards lengths after which a mandatory literal cannot follow
Ahead(pat, line, k, pos) ==
  k > Len(pat) \/ pat[k].cls # "lit" \/ pat[k].min = 0
  \/ (pos < Len(line) /\ line[pos + 1] = pat[k].ch)

\* the most favoured length among the lengths that fit: the longest for a
\* greedy atom, the shortest for a lazy one
Preferred(fit, greedy) ==
  IF greedy THEN CHOOSE x \in fit : \A y \in fit : y[1] <= x[1]
  ELSE CHOOSE x \in fit : \A y \in fit : x[1] <= y[1]

Extend(pos, t) == [ok |-> TRUE, ends |-> <<pos + t[1]>> \o t[2].ends]

FirstFit(fit, greedy, pos) ==
  IF fit = {} THEN NoMatch ELSE Extend(pos, Preferred(fit, greedy))

\* upper limit of the repetitions of atom a
Cap(a, line) == IF a.max < 0 THEN Len(line) ELSE a.max

\* Backtracking match of atoms k.. of pat against line from offset pos.
\* ends[i] is the offset after the i-th remaining atom.  A quantified atom
\* takes the first length, in its priority order, for which the rest of the
\* pattern matches: the longest such length when greedy, the shortest when
\* lazy.  With full = TRUE the match must end at the end of the line
\* (re.fullmatch); with full = FALSE it may end anywhere (re.match).
RECURSIVE MatchAt(_, _, _, _, _)
RECURSIVE Attempts(_, _, _, _, _, _)
MatchAt(pat, line, k, pos, full) ==
  IF k > Len(pat)
  THEN IF full /\ pos # Len(line) THEN NoMatch ELSE [ok |-> TRUE, ends |-> <<>>]
  ELSE FirstFit({t \in Attempts(pat, line, k, pos, full,
                                RunLen(pat[k], line, pos, Cap(pat[k], line))) : t[2].ok},
                pat[k].greedy, pos)

\* every admissible length n of atom k, with the match of the rest after it
Attempts(pat, line, k, pos, full, run) ==
  {<<n, MatchAt(pat, line, k + 1, pos + n, full)>> :
     n \in {x \in pat[k].min..run : Ahead(pat, line, k + 1, pos + x)}}

\* re.match(pattern, line): anchored at the start of the line only
re_match(pat, line) == MatchAt(pat, line, 1, 0, FALSE)

\* re.fullmatch(pattern, line): the pattern covers the line from start to end
re_fullmatch(pat, line) == MatchAt(pat, line, 1, 0, TRUE)

\* text of the group spanning atoms g[1]..g[2] of a successful match
GroupText(line, ends, g) ==
  SubSeq(line, (IF g[1] = 1 THEN 0 ELSE ends[g[1] - 1]) + 1, ends[g[2]])

\* match.groups()
Groups(line, m, grps) == [i \in 1..Len(grps) |-> GroupText(line, m.ends, grps[i])]

(***************************************************************************)
(* FormatRegistry: self.log_patterns                                       *)
(***************************************************************************)
\* r'(\S+) \S+ \S+ \[(.*?)\] "(.*?)" (\d+) (\d+)'
ApachePattern ==
  << Plus("S"), Lit(" "), Plus("S"), Lit(" "), Plus("S"), Lit(" "),
     Lit("["), LazyStar("any"), Lit("]"), Lit(" "),
     Lit("\""), LazyStar("any"), Lit("\""), Lit(" "),
     Plus("d"), Lit(" "), Plus("d") >>

\* r'(\S+) - - \[(.*?)\] "(.*?)" (\d+) (\d+)'
CommonPattern ==
  << Plus("S"), Lit(" "), Lit("-"), Lit(" "), Lit("-"), Lit(" "),
     Lit("["), LazyStar("any"), Lit("]"), Lit(" "),
     Lit("\""), LazyStar("any"), Lit("\""), Lit(" "),
     Plus("d"), Lit(" "), Plus("d") >>

\* r'(\S+) - - \[(.*?)\] "(.*?)" (\d+) (\d+) "(.*?)" "(.*?)"'
NginxPattern ==
  CommonPattern \o
  << Lit(" "), Lit("\""), LazyStar("any"), Lit("\""),
     Lit(" "), Lit("\""), LazyStar("any"), Lit("\"") >>

CombinedPattern == NginxPattern

\* r'(\d{4}-\d{2}-\d{2} \d{2}:\d{2}:\d{2}) (\w+): (.+)'
CustomPattern ==
  << Rep("d", 4), Lit("-"), Rep("d", 2), Lit("-"), Rep("d", 2), Lit(" "),
     Rep("d", 2), Lit(":"), Rep("d", 2), Lit(":"), Rep("d", 2), Lit(" "),
     Plus("w"), Lit(":"), Lit(" "), Plus("any") >>

\* capture groups of each pattern as <<first atom, last atom>>
WebGroups      == << <<1, 1>>, <<8, 8>>, <<12, 12>>, <<15, 15>>, <<17, 17>> >>
WebGroupsLong  == WebGroups \o << <<20, 20>>, <<24, 24>> >>
CustomGroups   == << <<1, 11>>, <<13, 13>>, <<16, 16>> >>

\* faulty variant: a registry that lists the longer patterns first
log_patterns_LongestFirst ==
  << [name |-> "nginx",    pat |-> NginxPattern,    grp |-> WebGroupsLong],
     [name |-> "combined", pat |-> CombinedPattern, grp |-> WebGroupsLong],
     [name |-> "apache",   pat |-> ApachePattern,   grp |-> WebGroups],
     [name |-> "common",   pat |-> CommonPattern,   grp |-> WebGroups],
     [name |-> "custom",   pat |-> CustomPattern,   grp |-> CustomGroups] >>

\* faulty variant: a registry that lists common ahead of apache
log_patterns_CommonFirst ==
  << [name |-> "common",   pat |-> CommonPattern,   grp |-> WebGroups],
     [name |-> "apache",   pat |-> ApachePattern,   grp |-> WebGroups],
     [name |-> "nginx",    pat |-> NginxPattern,    grp |-> WebGroupsLong],
     [name |-> "combined", pat |-> CombinedPattern, grp |-> WebGroupsLong],
     [name |-> "custom",   pat |-> CustomPattern,   grp |-> CustomGroups] >>

\* the dict keeps insertion order: apache, nginx, common, combined, custom
log_patterns ==
  << [name |-> "apache",   pat |-> ApachePattern,   grp |-> WebGroups],
     [name |-> "nginx",    pat |-> NginxPattern,    grp |-> WebGroupsLong],
     [name |-> "common",   pat |-> CommonPattern,   grp |-> WebGroups],
     [name |-> "combined", pat |-> CombinedPattern, grp |-> WebGroupsLong],
     [name |-> "custom",   pat |-> CustomPattern,   grp |-> CustomGroups] >>

(***************************************************************************)
(* TimestampParser: parse_timestamp (datetime.strptime over four layouts)  *)
(***************************************************************************)
RECURSIVE ToInt(_)
ToInt(s) == IF s = <<>> THEN 0
            ELSE ToInt(SubSeq(s, 1, Len(s) - 1)) * 10 + DigitVal(s[Len(s)])

IsDigit(s) == s # <<>> /\ \A i \in 1..Len(s) : s[i] \in Digits

Lower(s) == [i \in 1..Len(s) |-> ToLower(s[i])]

MonthNames ==
  << <<"j", "a", "n">>, <<"f", "e", "b">>, <<"m", "a", "r">>, <<"a", "p", "r">>,
     <<"m", "a", "y">>, <<"j", "u", "n">>, <<"j", "u", "l">>, <<"a", "u", "g">>,
     <<"s", "e", "p">>, <<"o", "c", "t">>, <<"n", "o", "v">>, <<"d", "e", "c">> >>

\* 0 when s is no month abbreviation (%b is matched case-insensitively)
MonthNum(s) ==
  IF \E i \in 1..12 : MonthNames[i] = Lower(s)
  THEN CHOOSE i \in 1..12 : MonthNames[i] = Lower(s)
  ELSE 0

IsLeap(y) == (y % 4 = 0 /\ y % 100 # 0) \/ y % 400 = 0

DaysIn(y, m) ==
  CASE m \in {1, 3, 5, 7, 8, 10, 12} -> 31
    [] m \in {4, 6, 9, 11} -> 30
    [] m = 2 -> IF IsLeap(y) THEN 29 ELSE 28
    [] OTHER -> 0

NoneTs == [kind |-> "None"]

\* the datetime constructor: a ValueError (here NoneTs) on an out-of-range field
MakeDatetime(kind, y, mo, d, h, mi, s, us, off) ==
  IF /\ y >= 1 /\ mo \in 1..12 /\ d >= 1 /\ d <= DaysIn(y, mo)
     /\ h <= 23 /\ mi <= 59 /\ s <= 59
     /\ off > -1440 /\ off < 1440
  THEN [kind |-> kind, year |-> y, month |-> mo, day |-> d, hour |-> h,
        minute |-> mi, second |-> s, microsecond |-> us, utcoffset |-> off]
  ELSE NoneTs

\* '%d/%b/%Y:%H:%M:%S' (atoms 1..11) and its ' %z' tail (atoms 12..16);
\* %z is modelled in its [+-]HH[:]MM form
ApacheTsNaive ==
  << Between("d", 1, 2), Lit("/"), Rep("alpha", 3), Lit("/"), Rep("d", 4), Lit(":"),
     Between("d", 1, 2), Lit(":"), Between("d", 1, 2), Lit(":"), Between("d", 1, 2) >>

ApacheTsTz ==
  ApacheTsNaive \o << Plus("s"), Rep("sign", 1), Rep("d", 2), OptLit(":"), Rep("d", 2) >>

\* '%Y-%m-%d %H:%M:%S' (atoms 1..11) and its '.%f' tail (atoms 12..13)
IsoTs ==
  << Rep("d", 4), Lit("-"), Between("d", 1, 2), Lit("-"), Between("d", 1, 2), Plus("s"),
     Between("d", 1, 2), Lit(":"), Between("d", 1, 2), Lit(":"), Between("d", 1, 2) >>

IsoTsMicro == IsoTs \o << Lit("."), Between("d", 1, 6) >>

Field(s, m, k) == GroupText(s, m.ends, <<k, k>>)

RECURSIVE Pow10(_)
Pow10(n) == IF n = 0 THEN 1 ELSE 10 * Pow10(n - 1)

Layouts == <<ApacheTsTz, ApacheTsNaive, IsoTs, IsoTsMicro>>

\* %z: the utcoffset in minutes of sign, hours and minutes
Offset(sign, hh, mm) == (IF sign = <<"-">> THEN -1 ELSE 1) * (ToInt(hh) * 60 + ToInt(mm))

\* %f: up to six digits, read as a decimal fraction of a second
Micro(f) == ToInt(f) * Pow10(6 - Len(f))

\* the datetime of a successful match m of the layout
Converted(s, layout, m) ==
  IF m.ends[Len(m.ends)] # Len(s) THEN NoneTs
  ELSE IF layout = 1
  THEN IF ToInt(Field(s, m, 16)) > 59 THEN NoneTs
       ELSE MakeDatetime("aware", ToInt(Field(s, m, 5)), MonthNum(Field(s, m, 3)),
                         ToInt(Field(s, m, 1)), ToInt(Field(s, m, 7)),
                         ToInt(Field(s, m, 9)), ToInt(Field(s, m, 11)), 0,
                         Offset(Field(s, m, 13), Field(s, m, 14), Field(s, m, 16)))
  ELSE IF layout = 2
  THEN MakeDatetime("naive", ToInt(Field(s, m, 5)), MonthNum(Field(s, m, 3)),
                    ToInt(Field(s, m, 1)), ToInt(Field(s, m, 7)),
                    ToInt(Field(s, m, 9)), ToInt(Field(s, m, 11)), 0, 0)
  ELSE MakeDatetime("naive", ToInt(Field(s, m, 1)), ToInt(Field(s, m, 3)),
                    ToInt(Field(s, m, 5)), ToInt(Field(s, m, 7)),
                    ToInt(Field(s, m, 9)), ToInt(Field(s, m, 11)),
                    IF layout = 4 THEN Micro(Field(s, m, 13)) ELSE 0, 0)

StrptimeMatch(s, layout, m) == IF m.ok THEN Converted(s, layout, m) ELSE NoneTs

\* datetime.strptime(s, layout); NoneTs stands for the ValueError the caller catches.
\* The whole string must be consumed ("unconverted data remains" otherwise).
Strptime(s, layout) == StrptimeMatch(s, layout, re_match(Layouts[layout], s))

\* the try/except loop over timestamp_formats: first layout that parses wins
RECURSIVE ParseTsFrom(_, _)
FirstParsed(s, layout, r) == IF r # NoneTs THEN r ELSE ParseTsFrom(s, layout + 1)

ParseTsFrom(s, layout) ==
  IF layout > Len(Layouts) THEN NoneTs ELSE FirstParsed(s, layout, Strptime(s, layout))

parse_timestamp(timestamp_str) == ParseTsFrom(timestamp_str, 1)

(***************************************************************************)
(* FieldExtractor: extract_fields                                          *)
(***************************************************************************)
\* the empty dict {}
EmptyDict == [k \in {} |-> 0]

\* Optional text: None is <<>>, a present value x is <<x>>
None == <<>>
Some(x) == <<x>>

\* str.split(): the maximal runs of non-whitespace characters, in order
RECURSIVE SplitFrom(_, _, _)
SplitFrom(s, i, cur) ==
  IF i > Len(s) THEN (IF cur = <<>> THEN <<>> ELSE <<cur>>)
  ELSE IF s[i] \in Whitespace
       THEN (IF cur = <<>> THEN <<>> ELSE <<cur>>) \o SplitFrom(s, i + 1, <<>>)
       ELSE SplitFrom(s, i + 1, Append(cur, s[i]))

Split(s) == SplitFrom(s, 1, <<>>)

DefaultProtocol == <<"H", "T", "T", "P", "/", "1", ".", "1">>

WebFormats == {"apache", "nginx", "common", "combined"}

\* entry.update({'ip': ..., 'timestamp': ..., 'request': ..., 'status': ..., 'size': ...})
WebFields(groups) ==
  [ip        |-> groups[1],
   timestamp |-> parse_timestamp(groups[2]),
   request   |-> groups[3],
   status    |-> IF IsDigit(groups[4]) THEN ToInt(groups[4]) ELSE 0,
   size      |-> IF IsDigit(groups[5]) THEN ToInt(groups[5]) ELSE 0]

\* the method, path and protocol of a request of two tokens or more
RequestFields(request_parts) ==
  IF Len(request_parts) >= 2
  THEN [method   |-> request_parts[1],
        path     |-> request_parts[2],
        protocol |-> IF Len(request_parts) > 2 THEN request_parts[3] ELSE DefaultProtocol]
  ELSE EmptyDict

\* the referer and user agent of the nginx and combined formats
ExtraFields(groups, format_name) ==
  IF format_name \in {"nginx", "combined"} /\ Len(groups) > 5
  THEN [referer    |-> IF groups[6] # <<"-">> THEN Some(groups[6]) ELSE None,
        user_agent |-> IF Len(groups) > 6 THEN Some(groups[7]) ELSE None]
  ELSE EmptyDict

\* entry.update({'timestamp': ..., 'level': ..., 'message': ...})
CustomFields(groups) ==
  [timestamp |-> parse_timestamp(groups[1]),
   level     |-> groups[2],
   message   |-> groups[3]]

\* a later assignment to a key replaces an earlier one (f @@ g keeps f)
extract_fields(groups, format_name, raw_line) ==
  (IF format_name \in WebFormats
   THEN ExtraFields(groups, format_name) @@ RequestFields(Split(groups[3])) @@ WebFields(groups)
   ELSE IF format_name = "custom" THEN CustomFields(groups)
   ELSE EmptyDict)
  @@ [raw_line |-> raw_line, parsed |-> TRUE, format |-> format_name]

(***************************************************************************)
(* LineParser: parse_log_line                                              *)
(***************************************************************************)
\* faulty variant: an unparsed entry that also carries a format tag
Unparsed_WithFormat(line) == [raw_line |-> line, parsed |-> FALSE, format |-> "unknown"]

Unparsed(line) == [raw_line |-> line, parsed |-> FALSE]

\* the entry of a match m of registry pattern p
Extracted(line, p, format_name, m) ==
  extract_fields(Groups(line, m, p.grp), format_name, line)

\* the for loop over self.log_patterns.items(): first pattern that matches
RECURSIVE AutoDetectFrom(_, _)
AutoStep(line, i, m) ==
  IF m.ok THEN Extracted(line, log_patterns[i], log_patterns[i].name, m)
  ELSE AutoDetectFrom(line, i + 1)

AutoDetectFrom(line, i) ==
  IF i > Len(log_patterns) THEN Unparsed(line)
  ELSE AutoStep(line, i, re_match(log_patterns[i].pat, line))

\* self.log_patterns.get(log_format): 0 when the name is no key
PatternIndex(log_format) ==
  IF \E i \in 1..Len(log_patterns) : log_patterns[i].name = log_format
  THEN CHOOSE i \in 1..Len(log_patterns) : log_patterns[i].name = log_format
  ELSE 0

NamedStep(line, log_format, p, m) ==
  IF m.ok THEN Extracted(line, p, log_format, m) ELSE Unparsed(line)

\* faulty variant: an unknown selector falls back to auto-detection
NamedFormat_FallsBack(line, log_format, i) ==
  IF i = 0 THEN AutoDetectFrom(line, 1)
  ELSE NamedStep(line, log_format, log_patterns[i], re_match(log_patterns[i].pat, line))

NamedFormat(line, log_format, i) ==
  IF i = 0 THEN Unparsed(line)
  ELSE NamedStep(line, log_format, log_patterns[i], re_match(log_patterns[i].pat, line))

parse_log_line(line, log_format) ==
  IF log_format = "auto"
  THEN AutoDetectFrom(line, 1)
  ELSE NamedFormat(line, log_format, PatternIndex(log_format))

(***************************************************************************)
(* Helpers for dicts, Counter and datetime arithmetic                      *)
(***************************************************************************)
Has(e, k) == k \in DOMAIN e

\* dict.get(k, default)
Get(e, k, default) == IF Has(e, k) THEN e[k] ELSE default

\* the subsequence of s at the indices in keep, in order
Pick(s, keep) ==
  [n \in 1..Cardinality(keep) |->
     s[CHOOSE i \in keep : Cardinality({j \in keep : j < i}) = n - 1]]

\* [e[k] for e in s]
Column(s, k) == [i \in 1..Len(s) |-> s[i][k]]

Elems(s) == {s[i] : i \in 1..Len(s)}

\* Counter(xs).items(): the distinct values in order of first appearance,
\* each with its number of occurrences
Tally(xs, firsts) ==
  [n \in 1..Len(firsts) |->
     <<firsts[n], Cardinality({j \in 1..Len(xs) : xs[j] = firsts[n]})>>]

Counter(xs) ==
  Tally(xs, Pick(xs, {i \in 1..Len(xs) : \A j \in 1..(i - 1) : xs[j] # xs[i]}))

Without(items, i) == SubSeq(items, 1, i - 1) \o SubSeq(items, i + 1, Len(items))

\* the first item of the largest count
Best(items) ==
  CHOOSE i \in 1..Len(items) :
    /\ \A j \in 1..Len(items) : items[j][2] <= items[i][2]
    /\ \A j \in 1..(i - 1) : items[j][2] < items[i][2]

\* sorted(items, key=count, reverse=True): a stable sort, so items of equal
\* count keep their order of first appearance
RECURSIVE SortByCount(_)
SortFrom(items, best) == <<items[best]>> \o SortByCount(Without(items, best))

SortByCount(items) == IF items = <<>> THEN <<>> ELSE SortFrom(items, Best(items))

Prefix(s, n) == SubSeq(s, 1, IF Len(s) < n THEN Len(s) ELSE n)

\* Counter.most_common(): all items; Counter.most_common(n): the first n
most_common_all(xs) == SortByCount(Counter(xs))

most_common(xs, n) == Prefix(SortByCount(Counter(xs)), n)

RECURSIVE Sum(_)
Sum(s) == IF s = <<>> THEN 0 ELSE s[1] + Sum(Tail(s))

Max(s) == CHOOSE x \in Elems(s) : \A y \in Elems(s) : y <= x
Min(s) == CHOOSE x \in Elems(s) : \A y \in Elems(s) : x <= y

\* days from 0001-01-01 to the date (date.toordinal)
RECURSIVE DaysBeforeMonth(_, _)
DaysBeforeMonth(y, m) == IF m = 1 THEN 0 ELSE DaysBeforeMonth(y, m - 1) + DaysIn(y, m - 1)

Ordinal(y, m, d) ==
  365 * (y - 1) + ((y - 1) \div 4) - ((y - 1) \div 100) + ((y - 1) \div 400)
  + DaysBeforeMonth(y, m) + d

\* a day and a count of seconds, with the seconds brought into 0..86399
Normal(day, secs, us) ==
  IF secs < 0 THEN <<day - 1, secs + 86400, us>>
  ELSE IF secs >= 86400 THEN <<day + 1, secs - 86400, us>>
  ELSE <<day, secs, us>>

\* the instant of a datetime as <<day, second of day, microsecond>>, in UTC
\* for an aware value and on the wall clock for a naive one
Instant(t) ==
  Normal(Ordinal(t.year, t.month, t.day),
         t.hour * 3600 + t.minute * 60 + t.second - t.utcoffset * 60,
         t.microsecond)

TupleLess(a, b) ==
  \/ a[1] < b[1]
  \/ a[1] = b[1] /\ a[2] < b[2]
  \/ a[1] = b[1] /\ a[2] = b[2] /\ a[3] < b[3]

\* a < b on datetimes, defined when both are naive or both are aware
DtLess(a, b) == TupleLess(Instant(a), Instant(b))

\* comparing an offset-naive with an offset-aware datetime raises TypeError
Comparable(a, b) == a.kind = b.kind

\* min(ts) / max(ts): the first minimal / maximal element
MinTs(ts) == ts[CHOOSE i \in 1..Len(ts) :
                  /\ \A j \in 1..Len(ts) : ~DtLess(ts[j], ts[i])
                  /\ \A j \in 1..(i - 1) : DtLess(ts[i], ts[j])]

MaxTs(ts) == ts[CHOOSE i \in 1..Len(ts) :
                  /\ \A j \in 1..Len(ts) : ~DtLess(ts[i], ts[j])
                  /\ \A j \in 1..(i - 1) : DtLess(ts[j], ts[i])]

\* x - y on instants as the timedelta <<days, seconds, microseconds>>
Borrow(dy, sc, us) ==
  <<dy - (IF sc - (IF us < 0 THEN 1 ELSE 0) < 0 THEN 1 ELSE 0),
    (sc - (IF us < 0 THEN 1 ELSE 0)) % 86400,
    us % 1000000>>

Diff(x, y) == Borrow(x[1] - y[1], x[2] - y[2], x[3] - y[3])

\* b - a on datetimes
TimeDelta(b, a) == Diff(Instant(b), Instant(a))

(***************************************************************************)
(* AggregationEngine: analyze_entries                                      *)
(***************************************************************************)
\* the outcome of a call: a returned value or a raised exception
Returned(v) == [raised |-> FALSE, value |-> v]
Raised(err) == [raised |-> TRUE, error |-> err]

\* a float quotient n / d, kept exact as the pair <<n, d>>
Quot(n, d) == <<n, d>>

TopN == 10

\* len(parsed_entries) / len(entries) * 100 if entries else 0
ParseRate(parsed, total) == IF total # 0 THEN Quot(parsed * 100, total) ELSE Quot(0, 1)

\* [e for e in entries if e.get('parsed', False)]
ParsedOnly(entries) ==
  Pick(entries, {i \in 1..Len(entries) : Get(entries[i], "parsed", FALSE)})

\* [e[k] for e in es if k in e]
Values(es, k) == Column(Pick(es, {i \in 1..Len(es) : Has(es[i], k)}), k)

\* [e[k] for e in es if k in e and e[k]] for an integer field
NonZero(es, k) ==
  Column(Pick(es, {i \in 1..Len(es) : Has(es[i], k) /\ es[i][k] # 0}), k)

\* [e['timestamp'] for e in es if 'timestamp' in e and e['timestamp']]
Timestamps(es) ==
  Column(Pick(es, {i \in 1..Len(es) : Has(es[i], "timestamp") /\ es[i].timestamp # NoneTs}),
         "timestamp")

\* the counters over the parsed entries
Counted(parsed_entries) ==
  [top_ips      |-> most_common(Values(parsed_entries, "ip"), TopN),
   unique_ips   |-> Cardinality(Elems(Values(parsed_entries, "ip"))),
   status_codes |-> most_common_all(NonZero(parsed_entries, "status")),
   http_methods |-> most_common_all(Values(parsed_entries, "method")),
   top_paths    |-> most_common(Values(parsed_entries, "path"), TopN)]

\* if sizes: analysis['response_sizes'] = {...}
Sized(sizes) ==
  IF sizes # <<>>
  THEN [response_sizes |-> [total_bytes |-> Sum(sizes),
                            avg_size    |-> Quot(Sum(sizes), Len(sizes)),
                            max_size    |-> Max(sizes),
                            min_size    |-> Min(sizes)]]
  ELSE EmptyDict

TimeRange(start, end) == [start |-> start, end |-> end, duration |-> TimeDelta(end, start)]

\* if timestamps: analysis['time_range'] = {...}; analysis['traffic_by_hour'] = ...
\* min() and max() compare the datetimes with each other and raise TypeError
\* on an offset-naive and an offset-aware one
Timed(timestamps) ==
  IF timestamps = <<>> THEN Returned(EmptyDict)
  ELSE IF \E i, j \in 1..Len(timestamps) : ~Comparable(timestamps[i], timestamps[j])
  THEN Raised("TypeError")
  ELSE Returned([time_range      |-> TimeRange(MinTs(timestamps), MaxTs(timestamps)),
                 traffic_by_hour |-> most_common_all(Column(timestamps, "hour"))])

\* the analysis dict once every key is set, or the exception of the time range
Assembled(analysis, counted, sized, timed) ==
  IF timed.raised THEN timed
  ELSE Returned(timed.value @@ sized @@ counted @@ analysis)

Analysed(entries, parsed_entries) ==
  IF parsed_entries = <<>>
  THEN Returned([total_entries  |-> Len(entries),
                 parsed_entries |-> Len(parsed_entries),
                 parse_rate     |-> ParseRate(Len(parsed_entries), Len(entries))])
  ELSE Assembled([total_entries  |-> Len(entries),
                  parsed_entries |-> Len(parsed_entries),
                  parse_rate     |-> ParseRate(Len(parsed_entries), Len(entries))],
                 Counted(parsed_entries),
                 Sized(NonZero(parsed_entries, "size")),
                 Timed(Timestamps(parsed_entries)))

analyze_entries(entries) ==
  IF entries = <<>> THEN Returned(EmptyDict)
  ELSE Analysed(entries, ParsedOnly(entries))

(***************************************************************************)
(* AnomalyDetector: detect_anomalies                                       *)
(***************************************************************************)
DigitChars == <<"0", "1", "2", "3", "4", "5", "6", "7", "8", "9">>

\* str(n) for n >= 0
RECURSIVE Str(_)
Str(n) == IF n < 10 THEN <<DigitChars[n + 1]>>
          ELSE Str(n \div 10) \o <<DigitChars[(n % 10) + 1]>>

\* the suspicious patterns in list order; suffix marks a trailing $
suspicious_patterns ==
  << [lit |-> <<".", "p", "h", "p">>, suffix |-> TRUE],
     [lit |-> <<"a", "d", "m", "i", "n">>, suffix |-> FALSE],
     [lit |-> <<"w", "p", "-", "a", "d", "m", "i", "n">>, suffix |-> FALSE],
     [lit |-> <<".", "e", "n", "v">>, suffix |-> FALSE],
     [lit |-> <<"b", "a", "c", "k", "u", "p">>, suffix |-> FALSE],
     [lit |-> <<"c", "o", "n", "f", "i", "g">>, suffix |-> FALSE],
     [lit |-> <<".", "g", "i", "t">>, suffix |-> FALSE] >>

\* re.search(pattern, path, re.IGNORECASE)
Search(p, path) ==
  \E i \in 1..(Len(path) - Len(p.lit) + 1) :
    /\ Lower(SubSeq(path, i, i + Len(p.lit) - 1)) = p.lit
    /\ p.suffix => i + Len(p.lit) - 1 = Len(path)

LargeResponseLimit == 10485760

\* faulty variant: the threshold 400 itself is not an error
ErrorStatus_Strict(entry) ==
  IF Get(entry, "status", 0) > 400
  THEN << [type     |-> "error_status",
           severity |-> IF entry.status >= 500 THEN "high" ELSE "medium",
           message  |-> <<"H", "T", "T", "P", " ">> \o Str(entry.status)
                        \o <<" ", "f", "r", "o", "m", " ">>
                        \o Get(entry, "ip", <<"u", "n", "k", "n", "o", "w", "n">>),
           entry    |-> entry] >>
  ELSE <<>>

\* if entry.get('status', 0) >= 400: ...
ErrorStatus(entry) ==
  IF Get(entry, "status", 0) >= 400
  THEN << [type     |-> "error_status",
           severity |-> IF entry.status >= 500 THEN "high" ELSE "medium",
           message  |-> <<"H", "T", "T", "P", " ">> \o Str(entry.status)
                        \o <<" ", "f", "r", "o", "m", " ">>
                        \o Get(entry, "ip", <<"u", "n", "k", "n", "o", "w", "n">>),
           entry    |-> entry] >>
  ELSE <<>>

\* faulty variant: a response of exactly the limit counts as large
LargeResponse_Inclusive(entry) ==
  IF Get(entry, "size", 0) >= LargeResponseLimit
  THEN << [type     |-> "large_response",
           severity |-> "medium",
           message  |-> <<"L", "a", "r", "g", "e", " ", "r", "e", "s", "p", "o", "n", "s", "e", " ">>
                        \o Str(entry.size) \o <<" ", "b", "y", "t", "e", "s">>,
           entry    |-> entry] >>
  ELSE <<>>

\* if entry.get('size', 0) > 10 * 1024 * 1024: ...
LargeResponse(entry) ==
  IF Get(entry, "size", 0) > LargeResponseLimit
  THEN << [type     |-> "large_response",
           severity |-> "medium",
           message  |-> <<"L", "a", "r", "g", "e", " ", "r", "e", "s", "p", "o", "n", "s", "e", " ">> \o Str(entry.size)
                        \o <<" ", "b", "y", "t", "e", "s">>,
           entry    |-> entry] >>
  ELSE <<>>

\* faulty variant: the loop over the patterns without its break
RECURSIVE SuspiciousFrom_NoBreak(_, _, _)
SuspiciousFrom_NoBreak(entry, path, i) ==
  IF i > Len(suspicious_patterns) THEN <<>>
  ELSE (IF Search(suspicious_patterns[i], path)
        THEN << [type     |-> "suspicious_path",
                 severity |-> "high",
                 message  |-> <<"S", "u", "s", "p", "i", "c", "i", "o", "u", "s", " ">> \o path,
                 entry    |-> entry] >>
        ELSE <<>>)
       \o SuspiciousFrom_NoBreak(entry, path, i + 1)

\* for pattern in suspicious_patterns: if re.search(...): append; break
RECURSIVE SuspiciousFrom(_, _, _)
SuspiciousFrom(entry, path, i) ==
  IF i > Len(suspicious_patterns) THEN <<>>
  ELSE IF Search(suspicious_patterns[i], path)
       THEN << [type     |-> "suspicious_path",
                severity |-> "high",
                message  |-> <<"S", "u", "s", "p", "i", "c", "i", "o", "u", "s", " ", "p", "a", "t", "h", " ", "a", "c", "c", "e", "s", "s", ":", " ">> \o path,
                entry    |-> entry] >>
       ELSE SuspiciousFrom(entry, path, i + 1)

SuspiciousPath(entry) == SuspiciousFrom(entry, Get(entry, "path", <<>>), 1)

\* the body of the loop for one entry
EntryAnomalies(entry) ==
  IF ~Get(entry, "parsed", FALSE) THEN <<>>
  ELSE ErrorStatus(entry) \o LargeResponse(entry) \o SuspiciousPath(entry)

RECURSIVE DetectFrom(_, _)
DetectFrom(entries, i) ==
  IF i > Len(entries) THEN <<>>
  ELSE EntryAnomalies(entries[i]) \o DetectFrom(entries, i + 1)

\* faulty variant: the anomalies of the whole batch are listed by severity,
\* the high ones before the medium ones
BySeverity(found) ==
  Pick(found, {i \in 1..Len(found) : found[i].severity = "high"}) \o
  Pick(found, {i \in 1..Len(found) : found[i].severity # "high"})

detect_anomalies_BySeverity(entries) == BySeverity(DetectFrom(entries, 1))

detect_anomalies(entries) == DetectFrom(entries, 1)

(***************************************************************************)
(* Input lines of the model: the raw lines a log file may hold            *)
(***************************************************************************)
\* 10.0.0.1 - - [10/Oct/2024:13:55:36 -0700] "GET /index.html HTTP/1.1" 200 512
LineScenario1 ==
  <<"1", "0", ".", "0", ".", "0", ".", "1", " ", "-", " ", "-", " ", "[", "1", "0", "/",
    "O", "c", "t", "/", "2", "0", "2", "4", ":", "1", "3", ":", "5", "5", ":", "3", "6",
    " ", "-", "0", "7", "0", "0", "]", " ", "\"", "G", "E", "T", " ", "/", "i", "n", "d",
    "e", "x", ".", "h", "t", "m", "l", " ", "H", "T", "T", "P", "/", "1", ".", "1", "\"",
    " ", "2", "0", "0", " ", "5", "1", "2">>

\* 10.0.0.2 - - [10/Oct/2024:13:55:37 -0700] "GET /wp-admin/config.php HTTP/1.1" 503 11000000 "-" "curl"
LineNginx503 ==
  <<"1", "0", ".", "0", ".", "0", ".", "2", " ", "-", " ", "-", " ", "[", "1", "0", "/",
    "O", "c", "t", "/", "2", "0", "2", "4", ":", "1", "3", ":", "5", "5", ":", "3", "7",
    " ", "-", "0", "7", "0", "0", "]", " ", "\"", "G", "E", "T", " ", "/", "w", "p", "-",
    "a", "d", "m", "i", "n", "/", "c", "o", "n", "f", "i", "g", ".", "p", "h", "p", " ",
    "H", "T", "T", "P", "/", "1", ".", "1", "\"", " ", "5", "0", "3", " ", "1", "1", "0",
    "0", "0", "0", "0", "0", " ", "\"", "-", "\"", " ", "\"", "c", "u", "r", "l", "\"">>

\* 2024-10-10 13:55:36 ERROR: disk full
LineCustom ==
  <<"2", "0", "2", "4", "-", "1", "0", "-", "1", "0", " ", "1", "3", ":", "5", "5", ":",
    "3", "6", " ", "E", "R", "R", "O", "R", ":", " ", "d", "i", "s", "k", " ", "f", "u",
    "l", "l">>

\* 10.0.0.1 bob staff [10/Oct/2024:14:00:00] "POST /Admin" 404 10485760
LineApacheOnly ==
  <<"1", "0", ".", "0", ".", "0", ".", "1", " ", "b", "o", "b", " ", "s", "t", "a", "f",
    "f", " ", "[", "1", "0", "/", "O", "c", "t", "/", "2", "0", "2", "4", ":", "1", "4",
    ":", "0", "0", ":", "0", "0", "]", " ", "\"", "P", "O", "S", "T", " ", "/", "A", "d",
    "m", "i", "n", "\"", " ", "4", "0", "4", " ", "1", "0", "4", "8", "5", "7", "6", "0">>

\* hello world
LineGarbage ==
  <<"h", "e", "l", "l", "o", " ", "w", "o", "r", "l", "d">>

\* 10.0.0.3 - - [yesterday] "-" 500 10485761
LineNoTimestamp ==
  <<"1", "0", ".", "0", ".", "0", ".", "3", " ", "-", " ", "-", " ", "[", "y", "e", "s",
    "t", "e", "r", "d", "a", "y", "]", " ", "\"", "-", "\"", " ", "5", "0", "0", " ", "1",
    "0", "4", "8", "5", "7", "6", "1">>

\* 10.0.0.2 - - [10/Oct/2024:13:55:36 -0700] "GET /a.php?x HTTP/1.0" 399 0 "http://r" "UA 1"
LineNginxReferer ==
  <<"1", "0", ".", "0", ".", "0", ".", "2", " ", "-", " ", "-", " ", "[", "1", "0", "/",
    "O", "c", "t", "/", "2", "0", "2", "4", ":", "1", "3", ":", "5", "5", ":", "3", "6",
    " ", "-", "0", "7", "0", "0", "]", " ", "\"", "G", "E", "T", " ", "/", "a", ".", "p",
    "h", "p", "?", "x", " ", "H", "T", "T", "P", "/", "1", ".", "0", "\"", " ", "3", "9",
    "9", " ", "0", " ", "\"", "h", "t", "t", "p", ":", "/", "/", "r", "\"", " ", "\"", "U",
    "A", " ", "1", "\"">>

\* 10.0.0.4 - - [10/Oct/2024:13:55:36 -0700] "GET /x HTTP/1.1" 400 7 trailing
LineTrailing ==
  <<"1", "0", ".", "0", ".", "0", ".", "4", " ", "-", " ", "-", " ", "[", "1", "0", "/",
    "O", "c", "t", "/", "2", "0", "2", "4", ":", "1", "3", ":", "5", "5", ":", "3", "6",
    " ", "-", "0", "7", "0", "0", "]", " ", "\"", "G", "E", "T", " ", "/", "x", " ", "H",
    "T", "T", "P", "/", "1", ".", "1", "\"", " ", "4", "0", "0", " ", "7", " ", "t", "r",
    "a", "i", "l", "i", "n", "g">>

\* x 10.0.0.1 - - [10/Oct/2024:13:55:36 -0700] "GET / HTTP/1.1" 200 5
LineLeading ==
  <<"x", " ", "1", "0", ".", "0", ".", "0", ".", "1", " ", "-", " ", "-", " ", "[", "1",
    "0", "/", "O", "c", "t", "/", "2", "0", "2", "4", ":", "1", "3", ":", "5", "5", ":",
    "3", "6", " ", "-", "0", "7", "0", "0", "]", " ", "\"", "G", "E", "T", " ", "/", " ",
    "H", "T", "T", "P", "/", "1", ".", "1", "\"", " ", "2", "0", "0", " ", "5">>

\* 10.0.0.1 - - [31/Feb/2024:00:00:00 +0000] "GET /.git/HEAD HTTP/1.1" 499 1
LineBadDate ==
  <<"1", "0", ".", "0", ".", "0", ".", "1", " ", "-", " ", "-", " ", "[", "3", "1", "/",
    "F", "e", "b", "/", "2", "0", "2", "4", ":", "0", "0", ":", "0", "0", ":", "0", "0",
    " ", "+", "0", "0", "0", "0", "]", " ", "\"", "G", "E", "T", " ", "/", ".", "g", "i",
    "t", "/", "H", "E", "A", "D", " ", "H", "T", "T", "P", "/", "1", ".", "1", "\"", " ",
    "4", "9", "9", " ", "1">>

\* (three spaces)
LineBlank ==
  <<" ", " ", " ">>

\*  #1 - - [10/Oct/2024:13:55:36 -0700] "GET / HTTP/1.1" 200 5
LineComment ==
  <<" ", "#", "1", " ", "-", " ", "-", " ", "[", "1", "0", "/", "O", "c", "t", "/", "2", "0",
    "2", "4", ":", "1", "3", ":", "5", "5", ":", "3", "6", " ", "-", "0", "7", "0", "0",
    "]", " ", "\"", "G", "E", "T", " ", "/", " ", "H", "T", "T", "P", "/", "1", ".", "1",
    "\"", " ", "2", "0", "0", " ", "5">>

\*   2024-10-10 13:55:36 INFO: ok  
LinePadded ==
  <<" ", " ", "2", "0", "2", "4", "-", "1", "0", "-", "1", "0", " ", "1", "3", ":", "5",
    "5", ":", "3", "6", " ", "I", "N", "F", "O", ":", " ", "o", "k", " ", " ">>

RawLines ==
  { LineScenario1,
    LineNginx503,
    LineCustom,
    LineApacheOnly,
    LineGarbage,
    LineNoTimestamp,
    LineNginxReferer,
    LineTrailing,
    LineLeading,
    LineBadDate,
    LineBlank,
    LineComment,
    LinePadded }

\* the format selectors: auto, the five registry names, and an unknown name
Selectors == {"auto", "apache", "nginx", "common", "combined", "custom", "syslog"}

\* number of lines of the file that is read
MaxLines == 2

\* str.strip()
Trim(raw, keep) ==
  IF keep = {} THEN <<>>
  ELSE SubSeq(raw, CHOOSE i \in keep : \A j \in keep : i <= j,
                   CHOOSE i \in keep : \A j \in keep : j <= i)

Strip(raw) == Trim(raw, {i \in 1..Len(raw) : raw[i] \notin Whitespace})

(***************************************************************************)
(* State: one run of parse_log_file over a file that is read line by line, *)
(* followed by analyze_entries and detect_anomalies over its entries       *)
(***************************************************************************)
VARIABLES
  log_format,   \* the log_format argument of parse_log_file
  file,         \* the lines of the file read so far, as they stand in the file
  line_num,     \* line_num of the enumerate loop: lines read so far
  entries,      \* the entries list
  last,         \* the latest call of parse_log_line: its line and its return value
  analysis,     \* outcome of analyze_entries(entries)
  anomalies,    \* return value of detect_anomalies(entries)
  done          \* the calls made on the entries, in order

vars == <<log_format, file, line_num, entries, last, analysis, anomalies, done>>

NoCall == [called |-> FALSE]

Init ==
  /\ log_format \in Selectors
  /\ file = <<>>
  /\ line_num = 0
  /\ entries = <<>>
  /\ last = NoCall
  /\ analysis = NoCall
  /\ anomalies = <<>>
  /\ done = <<>>

\* faulty variant: the entries are numbered, not the lines of the file
Keep_CountsEntries(line, entry) ==
  /\ last' = [called |-> TRUE, line |-> line, entry |-> entry]
  /\ entries' = Append(entries, [line_number |-> Len(entries) + 1] @@ entry)

\* entry = self.parse_log_line(line, log_format); entry['line_number'] = line_num;
\* entries.append(entry)
Keep(line, entry) ==
  /\ last' = [called |-> TRUE, line |-> line, entry |-> entry]
  /\ entries' = Append(entries, [line_number |-> line_num + 1] @@ entry)

\* line = line.strip(); if not line or line.startswith('#'): continue
Handle(line) ==
  IF line = <<>> \/ line[1] = "#"
  THEN UNCHANGED <<entries, last>>
  ELSE Keep(line, parse_log_line(line, log_format))

\* one iteration of the loop of parse_log_file over the next line of the file
ReadLine(raw) ==
  /\ done = <<>>
  /\ line_num < MaxLines
  /\ file' = Append(file, raw)
  /\ line_num' = line_num + 1
  /\ Handle(Strip(raw))
  /\ UNCHANGED <<log_format, analysis, anomalies, done>>

\* faulty variant: analyze_entries filters the caller's list in place
Analyze_InPlace ==
  /\ "analyze" \notin Elems(done)
  /\ analysis' = [called |-> TRUE] @@ analyze_entries(entries)
  /\ entries' = ParsedOnly(entries)
  /\ done' = Append(done, "analyze")
  /\ UNCHANGED <<log_format, file, line_num, last, anomalies>>

\* analysis = analyzer.analyze_entries(entries)
Analyze ==
  /\ "analyze" \notin Elems(done)
  /\ analysis' = [called |-> TRUE] @@ analyze_entries(entries)
  /\ done' = Append(done, "analyze")
  /\ UNCHANGED <<log_format, file, line_num, entries, last, anomalies>>

\* anomalies = analyzer.detect_anomalies(entries)
Detect ==
  /\ "detect" \notin Elems(done)
  /\ anomalies' = detect_anomalies(entries)
  /\ done' = Append(done, "detect")
  /\ UNCHANGED <<log_format, file, line_num, entries, last, analysis>>

Next ==
  \/ \E raw \in RawLines : ReadLine(raw)
  \/ Analyze
  \/ Detect

Spec == Init /\ [][Next]_vars

(***************************************************************************)
(* A busy log: requests of up to twelve hosts, each host with its own      *)
(* path, read under auto-detection and then analysed                       *)
(***************************************************************************)
\* the last octet of each host's address; the hosts show up in this order
Octets ==
  <<<<"9">>, <<"8">>, <<"7">>, <<"6">>, <<"5">>, <<"4">>, <<"3">>, <<"2">>, <<"1">>, <<"0">>, <<"1", "1">>, <<"1", "0">>>>

HostIp(i) == <<"1", "0", ".", "0", ".", "1", ".">> \o Octets[i]

HostPath(i) == <<"/", "p", "/">> \o Octets[i]

\* <ip> - - [10/Oct/2024:13:55:36 +0000] "GET <path> HTTP/1.1" 200 1
RequestLine(i) ==
  HostIp(i) \o
  <<" ", "-", " ", "-", " ", "[", "1", "0", "/", "O", "c", "t", "/", "2", "0", "2",
    "4", ":", "1", "3", ":", "5", "5", ":", "3", "6", " ", "+", "0", "0", "0", "0",
    "]", " ", "\"", "G", "E", "T", " ">> \o
  HostPath(i) \o
  <<" ", "H", "T", "T", "P", "/", "1", ".", "1", "\"", " ", "2", "0", "0", " ", "1">>

\* 10.0.1.9 - - [10/Oct/2024:13:55:36 +0000] "-" 408 0
NoPathLine ==
  HostIp(1) \o
  <<" ", "-", " ", "-", " ", "[", "1", "0", "/", "O", "c", "t", "/", "2", "0", "2",
    "4", ":", "1", "3", ":", "5", "5", ":", "3", "6", " ", "+", "0", "0", "0", "0",
    "]", " ", "\"", "-", "\"", " ", "4", "0", "8", " ", "0">>

\* number of requests of the log that come from a host seen before
MaxRepeats == 1

SeenIps == Elems(Values(entries, "ip"))

\* the next line of the log is a request of host i
MayRead(i) ==
  IF HostIp(i) \in SeenIps
  THEN Len(entries) - Cardinality(SeenIps) < MaxRepeats
  ELSE i = Cardinality(SeenIps) + 1

\* one iteration of the loop of parse_log_file over a request line of host i
ReadRequest(i, raw) ==
  /\ done = <<>>
  /\ MayRead(i)
  /\ file' = Append(file, raw)
  /\ line_num' = line_num + 1
  /\ Handle(Strip(raw))
  /\ UNCHANGED <<log_format, analysis, anomalies, done>>

InitTop ==
  /\ log_format = "auto"
  /\ file = <<>>
  /\ line_num = 0
  /\ entries = <<>>
  /\ last = NoCall
  /\ analysis = NoCall
  /\ anomalies = <<>>
  /\ done = <<>>

NextTop ==
  \/ \E i \in 1..Len(Octets) : ReadRequest(i, RequestLine(i))
  \/ ReadRequest(1, NoPathLine)
  \/ Analyze

SpecTop == InitTop /\ [][NextTop]_vars

(***************************************************************************)
(* Properties                                                              *)
(***************************************************************************)
RegistryOrder == <<"apache", "nginx", "common", "combined", "custom">>

NamedFormats == {"apache", "nginx", "common", "combined", "custom"}

PatternNamed(name) ==
  CASE name = "apache"   -> ApachePattern
    [] name = "nginx"    -> NginxPattern
    [] name = "common"   -> CommonPattern
    [] name = "combined" -> CombinedPattern
    [] name = "custom"   -> CustomPattern

MatchesNamed(name, line) == re_match(PatternNamed(name), line).ok

\* index in RegistryOrder of the first format whose pattern matches, 0 if none
FirstMatching(line) ==
  IF \E i \in 1..Len(RegistryOrder) : MatchesNamed(RegistryOrder[i], line)
  THEN CHOOSE i \in 1..Len(RegistryOrder) :
         /\ MatchesNamed(RegistryOrder[i], line)
         /\ \A j \in 1..(i - 1) : ~MatchesNamed(RegistryOrder[j], line)
  ELSE 0

AutoResultIs(entry, line, first) ==
  IF first = 0 THEN entry = [raw_line |-> line, parsed |-> FALSE]
  ELSE /\ entry.parsed
       /\ entry.format = RegistryOrder[first]
       /\ entry = parse_log_line(line, RegistryOrder[first])

\* C1: under auto, parse_log_line returns the extraction of the first pattern,
\* in the order apache, nginx, common, combined, custom, that matches the line;
\* a line matching both the apache and the common pattern is classified apache.
C1_AutoOrder ==
  (log_format = "auto" /\ last.called) =>
    /\ AutoResultIs(last.entry, last.line, FirstMatching(last.line))
    /\ (MatchesNamed("apache", last.line) /\ MatchesNamed("common", last.line))
         => last.entry.format = "apache"

C1_Witness ==
  /\ log_format = "auto" /\ last.called
  /\ MatchesNamed("apache", last.line) /\ MatchesNamed("common", last.line)
  /\ last.entry.parsed /\ last.entry.format = "apache"

\* C2: a parsed entry is returned only when the pattern of its format matches
\* the line in full, from line start to line end; a line the pattern covers
\* only in part comes back unparsed.
C2_FullMatchOnly ==
  (last.called /\ last.entry.parsed) =>
    re_fullmatch(PatternNamed(last.entry.format), last.line).ok

\* C3: analyze_entries returns a result for every batch of parsed lines and
\* never raises.
C3_AnalyzeTotal == analysis.called => ~analysis.raised

\* C4: for the empty batch analyze_entries returns a result whose parse_rate
\* is defined and equals 0, with total_entries = 0.
C4_EmptyParseRate ==
  (analysis.called /\ entries = <<>>) =>
    /\ ~analysis.raised
    /\ "parse_rate" \in DOMAIN analysis.value
    /\ analysis.value.parse_rate[1] = 0
    /\ "total_entries" \in DOMAIN analysis.value
    /\ analysis.value.total_entries = 0

NumParsed(es) == Cardinality({i \in 1..Len(es) : es[i].parsed})

CountsOf(value, es) ==
  /\ value.total_entries = Len(es)
  /\ value.parsed_entries = NumParsed(es)
  /\ value.parse_rate[1] * Len(es) = NumParsed(es) * 100 * value.parse_rate[2]
  /\ value.parse_rate[2] > 0
  /\ value.parsed_entries <= value.total_entries
  /\ 0 <= value.parse_rate[1]
  /\ value.parse_rate[1] <= 100 * value.parse_rate[2]

\* C5: for every non-empty batch analyze_entries reports total_entries = the
\* length of the batch, parsed_entries = the number of entries with parsed =
\* true and parse_rate = parsed_entries / total_entries * 100, within [0, 100].
C5_Counts ==
  (analysis.called /\ entries # <<>>) =>
    /\ ~analysis.raised
    /\ CountsOf(analysis.value, entries)

BaseKeys   == {"raw_line", "parsed", "format"}
WebKeys    == BaseKeys \cup {"ip", "timestamp", "request", "status", "size"}
ReqKeys    == {"method", "path", "protocol"}
ExtraKeys  == {"referer", "user_agent"}
CustomKeys == BaseKeys \cup {"timestamp", "level", "message"}

WellShaped(e) ==
  \/ DOMAIN e = {"raw_line", "parsed"} /\ ~e.parsed
  \/ /\ BaseKeys \subseteq DOMAIN e
     /\ e.parsed
     /\ e.format \in NamedFormats
     /\ IF e.format = "custom" THEN DOMAIN e = CustomKeys
        ELSE \/ DOMAIN e = WebKeys \cup (IF e.format \in {"nginx", "combined"}
                                         THEN ExtraKeys ELSE {})
             \/ DOMAIN e = WebKeys \cup ReqKeys \cup (IF e.format \in {"nginx", "combined"}
                                                      THEN ExtraKeys ELSE {})

\* C6: an entry returned by parse_log_line is either exactly {raw_line,
\* parsed = false}, or has parsed = true, one of the five format names and
\* only the fields of that format: the web-log fields (with method, path and
\* protocol optional, and referer and user_agent for nginx and combined only)
\* never stand beside the custom fields level and message.
C6_EntryShape == last.called => WellShaped(last.entry)

C6_Witness ==
  /\ last.called /\ last.entry.parsed
  /\ last.entry.format = "nginx"
  /\ DOMAIN last.entry = WebKeys \cup ReqKeys \cup ExtraKeys

\* C7: with a selector other than auto and the five names every line comes
\* back as {raw_line, parsed = false}; a named selector tries its own pattern
\* only and never yields an entry of another format.
C7_NoFallback ==
  last.called =>
    /\ log_format \notin NamedFormats \cup {"auto"}
         => last.entry = [raw_line |-> last.line, parsed |-> FALSE]
    /\ log_format \in NamedFormats
         => IF MatchesNamed(log_format, last.line)
            THEN last.entry.parsed /\ last.entry.format = log_format
            ELSE last.entry = [raw_line |-> last.line, parsed |-> FALSE]

C7_Witness ==
  /\ log_format = "syslog" /\ last.called
  /\ MatchesNamed("apache", last.line)
  /\ last.entry = [raw_line |-> last.line, parsed |-> FALSE]

AnomalyTypes == {"error_status", "large_response", "suspicious_path"}

\* the indices of the anomalies of type t that refer to entry e
AnomaliesOf(e, t) ==
  {k \in 1..Len(anomalies) : anomalies[k].entry = e /\ anomalies[k].type = t}

\* number of suspicious patterns the path of e matches
PathHits(e) ==
  Cardinality({i \in 1..Len(suspicious_patterns) :
                 Has(e, "path") /\ Search(suspicious_patterns[i], e.path)})

\* C8: every parsed entry yields at most one anomaly of each type; an entry
\* whose path matches two or more suspicious patterns yields exactly one
\* suspicious_path anomaly, of severity high.
C8_OnePerType ==
  "detect" \in Elems(done) =>
    \A i \in 1..Len(entries) :
      /\ \A t \in AnomalyTypes : Cardinality(AnomaliesOf(entries[i], t)) <= 1
      /\ (entries[i].parsed /\ PathHits(entries[i]) >= 2)
           => /\ Cardinality(AnomaliesOf(entries[i], "suspicious_path")) = 1
              /\ \A k \in AnomaliesOf(entries[i], "suspicious_path") :
                   anomalies[k].severity = "high"

C8_Witness ==
  /\ "detect" \in Elems(done)
  /\ \E i \in 1..Len(entries) :
       /\ entries[i].parsed /\ PathHits(entries[i]) >= 2
       /\ Cardinality(AnomaliesOf(entries[i], "suspicious_path")) = 1

\* C9: a parsed entry yields an error_status anomaly exactly when its status is
\* at least 400; the severity is high exactly when the status is at least 500
\* and medium exactly when it lies in 400..499.
C9_ErrorStatus ==
  "detect" \in Elems(done) =>
    \A i \in 1..Len(entries) :
      entries[i].parsed =>
        /\ (AnomaliesOf(entries[i], "error_status") # {})
             <=> (Has(entries[i], "status") /\ entries[i].status >= 400)
        /\ \A k \in AnomaliesOf(entries[i], "error_status") :
             /\ anomalies[k].severity = "high" <=> entries[i].status >= 500
             /\ anomalies[k].severity = "medium"
                  <=> (entries[i].status >= 400 /\ entries[i].status <= 499)

C9_Witness ==
  /\ "detect" \in Elems(done)
  /\ \E i, j \in 1..Len(entries) :
       /\ entries[i].parsed /\ Has(entries[i], "status") /\ entries[i].status = 400
       /\ \E k \in AnomaliesOf(entries[i], "error_status") : anomalies[k].severity = "medium"
       /\ entries[j].parsed /\ Has(entries[j], "status") /\ entries[j].status = 500
       /\ \E k \in AnomaliesOf(entries[j], "error_status") : anomalies[k].severity = "high"

\* C10: a parsed entry yields a large_response anomaly, of severity medium,
\* exactly when its size is strictly greater than 10 * 1024 * 1024 = 10485760;
\* a size of exactly 10485760 yields none.
C10_LargeResponse ==
  "detect" \in Elems(done) =>
    \A i \in 1..Len(entries) :
      entries[i].parsed =>
        /\ (AnomaliesOf(entries[i], "large_response") # {})
             <=> (Has(entries[i], "size") /\ entries[i].size > 10 * 1024 * 1024)
        /\ \A k \in AnomaliesOf(entries[i], "large_response") :
             anomalies[k].severity = "medium"
        /\ (Has(entries[i], "size") /\ entries[i].size = 10485760)
             => AnomaliesOf(entries[i], "large_response") = {}

C10_Witness ==
  /\ "detect" \in Elems(done)
  /\ \E i, j \in 1..Len(entries) :
       /\ entries[i].parsed /\ Has(entries[i], "size") /\ entries[i].size = 10485760
       /\ AnomaliesOf(entries[i], "large_response") = {}
       /\ entries[j].parsed /\ Has(entries[j], "size") /\ entries[j].size = 10485761
       /\ AnomaliesOf(entries[j], "large_response") # {}

CountOf(xs, v) == Cardinality({j \in 1..Len(xs) : xs[j] = v})

FirstAt(xs, v) == CHOOSE i \in 1..Len(xs) : xs[i] = v /\ \A j \in 1..(i - 1) : xs[j] # v

\* a is more frequent in xs than b, or as frequent and first seen earlier
Outranks(xs, a, b) ==
  \/ CountOf(xs, a) > CountOf(xs, b)
  \/ CountOf(xs, a) = CountOf(xs, b) /\ FirstAt(xs, a) < FirstAt(xs, b)

\* top lists the n best values of xs with their counts, best first
TopListOf(top, xs, n) ==
  /\ Len(top) <= n
  /\ Len(top) = n \/ Len(top) = Cardinality(Elems(xs))
  /\ \A i \in 1..Len(top) : top[i][1] \in Elems(xs) /\ top[i][2] = CountOf(xs, top[i][1])
  /\ \A i, j \in 1..Len(top) : i < j => Outranks(xs, top[i][1], top[j][1])
  /\ \A v \in Elems(xs) \ {top[i][1] : i \in 1..Len(top)} :
       \A i \in 1..Len(top) : Outranks(xs, top[i][1], v)

TopListsOf(value, parsed) ==
  /\ "top_ips" \in DOMAIN value
  /\ TopListOf(value.top_ips, Values(parsed, "ip"), 10)
  /\ "top_paths" \in DOMAIN value
  /\ TopListOf(value.top_paths, Values(parsed, "path"), 10)

\* C11: for every batch with at least one parsed entry, top_ips and top_paths
\* hold at most 10 keys: the most frequent ip / path values in descending
\* frequency, values of equal frequency ordered, and at the cut-off selected,
\* by their first appearance in the input.
C11_TopLists ==
  (analysis.called /\ ParsedOnly(entries) # <<>>) =>
    /\ ~analysis.raised
    /\ TopListsOf(analysis.value, ParsedOnly(entries))

\* the property of C11 on the calls of analyze_entries that return
TopListsWhenReturned ==
  (analysis.called /\ ParsedOnly(entries) # <<>> /\ ~analysis.raised) =>
    TopListsOf(analysis.value, ParsedOnly(entries))

\* a log of more than 10 hosts has been analysed, one host seen twice
TopListsCutOff ==
  /\ analysis.called /\ ~analysis.raised
  /\ Cardinality(SeenIps) > 10
  /\ Len(entries) > Cardinality(SeenIps)
  /\ Len(analysis.value.top_ips) = 10

\* a line of the file that is empty after trimming or then begins with #
Skipped(raw) ==
  \/ \A i \in 1..Len(raw) : raw[i] \in Whitespace
  \/ \E i \in 1..Len(raw) : raw[i] = "#" /\ \A j \in 1..(i - 1) : raw[j] \in Whitespace

\* the positions in the file of the lines that are not skipped, in order
KeptPositions(lines) ==
  Pick([i \in 1..Len(lines) |-> i], {i \in 1..Len(lines) : ~Skipped(lines[i])})

\* text is raw without its leading and trailing whitespace
TrimmedAt(raw, text, a) ==
  /\ \A j \in 1..(a - 1) : raw[j] \in Whitespace
  /\ a + Len(text) - 1 <= Len(raw)
  /\ \A j \in (a + Len(text))..Len(raw) : raw[j] \in Whitespace
  /\ text[1] \notin Whitespace
  /\ text[Len(text)] \notin Whitespace
  /\ text = SubSeq(raw, a, a + Len(text) - 1)

Trimmed(raw, text) == text # <<>> /\ \E a \in 1..Len(raw) : TrimmedAt(raw, text, a)

\* the entries are the kept lines, trimmed, each numbered by its position
EntriesOfLines(es, lines, kept) ==
  /\ Len(es) = Len(kept)
  /\ \A n \in 1..Len(es) :
       /\ es[n].line_number = kept[n]
       /\ Trimmed(lines[kept[n]], es[n].raw_line)

\* C12: of the lines read by parse_log_file, those empty after trimming or
\* beginning with # contribute no entry, every other line contributes exactly
\* one entry, in input order, and its line_number is the 1-based position of
\* the line in the file, skipped lines counted.
C12_LineNumbers ==
  /\ line_num = Len(file)
  /\ EntriesOfLines(entries, file, KeptPositions(file))

C12_Witness ==
  /\ Len(file) >= 2
  /\ Skipped(file[1])
  /\ ~Skipped(file[2])
  /\ Len(entries) = Len(file) - 1
  /\ entries[1].line_number = 2

\* entry e meets the condition of an anomaly of type t
Triggers(e, t) ==
  CASE t = "error_status"    -> Has(e, "status") /\ e.status >= 400
    [] t = "large_response"  -> Has(e, "size") /\ e.size > 10485760
    [] t = "suspicious_path" -> PathHits(e) >= 1

\* found = detect(a) ++ detect(b) for every way to cut es into a ++ b
SplitsInto(found, es) ==
  \A k \in 0..Len(es) :
    found = detect_anomalies(SubSeq(es, 1, k)) \o detect_anomalies(SubSeq(es, k + 1, Len(es)))

\* C13: detect_anomalies keeps no state across entries and preserves input
\* order: detect(a ++ b) = detect(a) ++ detect(b); the anomalies of an earlier
\* entry precede those of a later one, the entry of each anomaly is the entry
\* that triggered it, and unparsed entries contribute no anomaly.
C13_Compositional ==
  "detect" \in Elems(done) =>
    /\ SplitsInto(anomalies, entries)
    /\ \A i, j \in 1..Len(anomalies) :
         i < j => anomalies[i].entry.line_number <= anomalies[j].entry.line_number
    /\ \A k \in 1..Len(anomalies) :
         /\ anomalies[k].entry \in Elems(entries)
         /\ anomalies[k].entry.parsed
         /\ Triggers(anomalies[k].entry, anomalies[k].type)

\* a medium anomaly of an earlier entry stands before a high one of a later
\* entry
C13_Witness ==
  /\ "detect" \in Elems(done)
  /\ \E i, j \in 1..Len(anomalies) :
       /\ i < j
       /\ anomalies[i].entry.line_number < anomalies[j].entry.line_number
       /\ anomalies[i].severity = "medium"
       /\ anomalies[j].severity = "high"

\* C14: analyze_entries and detect_anomalies leave the entries and their
\* sequence unchanged, so after both have run over the batch, in either order,
\* the analysis and the anomalies are those of the batch as it was read.
C14_ReadOnly ==
  [][done' # done =>
       /\ entries' = entries
       /\ Len(done') = 2 =>
            /\ analysis' = [called |-> TRUE] @@ analyze_entries(entries)
            /\ anomalies' = detect_anomalies(entries)]_vars

\* detect_anomalies, then analyze_entries, have run over a batch with an
\* unparsed entry and an anomaly
C14_Witness ==
  /\ done = <<"detect", "analyze">>
  /\ \E i \in 1..Len(entries) : ~entries[i].parsed
  /\ anomalies # <<>>
  /\ ~analysis.raised

\* the formats auto-detection can never return, their patterns coming after
\* the apache pattern, which matches whatever they match
Shadowed == {"nginx", "common", "combined"}

\* of the lines a file may hold, trimmed, the apache pattern matches every
\* one that a shadowed pattern matches
ApacheCovers ==
  \A raw \in RawLines :
    \/ MatchesNamed("apache", Strip(raw))
    \/ \A name \in Shadowed : ~MatchesNamed(name, Strip(raw))

AutoEntry(e) ==
  e.parsed =>
    /\ e.format \in {"apache", "custom"}
    /\ "referer" \notin DOMAIN e
    /\ "user_agent" \notin DOMAIN e

\* C15: every line matched by the nginx, common or combined pattern is also
\* matched by the apache pattern; so under auto the format of a parsed entry
\* is apache or custom, never nginx, common or combined, and referer and
\* user_agent are never set.
C15_AutoFormats ==
  /\ ApacheCovers
  /\ log_format = "auto" =>
       /\ last.called => AutoEntry(last.entry)
       /\ \A i \in 1..Len(entries) : AutoEntry(entries[i])

\* a line with referer and user agent, matched by the nginx pattern, was
\* read under auto and came back as apache
C15_Witness ==
  /\ log_format = "auto"
  /\ last.called
  /\ MatchesNamed("nginx", last.line)
  /\ MatchesNamed("combined", last.line)
  /\ last.entry.parsed
  /\ last.entry.format = "apache"
  /\ "referer" \notin DOMAIN last.entry

====
